---- MODULE Spec2Model ----
(***************************************************************************)
(* NotificationService of the warehouse application                        *)
(* (src/src/app/core/services/notification.service.ts) as a state machine: *)
(* the live list, the unread count, the throttle map and the settings,     *)
(* with one action per public operation of the service and one for the     *)
(* snapshot callback of the components that re-hydrate the list.           *)
(*                                                                         *)
(* Time is Date.now() in milliseconds.  A handler runs at one instant: the *)
(* calls to Date.now() and new Date() inside one handler read the same     *)
(* value of the clock.  Strings are the program's strings.                 *)
(*                                                                         *)
(* The handlers write to the Firestore collection through async methods    *)
(* they do not await (lines 276-368).  Such a method runs up to its first  *)
(* await inside the handler, which is where it reads the live list; the    *)
(* rest, the queries and the write, is one later step that succeeds or     *)
(* fails.  A failure is caught and logged inside the method.               *)
(***************************************************************************)
EXTENDS Integers, Sequences, FiniteSets, TLC

VARIABLES
    notifications,          \* notificationsSubject.value, newest first
    unreadCount,            \* unreadCountSubject.value
    notificationThrottle,   \* Map<string, number>: throttle key -> Date.now()
    userSettings,           \* the settings record
    now,                    \* the clock, Date.now()
    lastAccepted,           \* history: throttle key -> time of its last accepted emission
    ops,                    \* history: service operations performed so far
    last,                   \* history: the service operation that ran last, its outcome
    remote,                 \* the records of the Firestore collection 'notifications'
    pending,                \* the remote calls the handlers started that have not settled
    settled                 \* history: the remote call that settled last, and how;
                            \* the number of remote calls that failed

vars == <<notifications, unreadCount, notificationThrottle, userSettings, now,
          lastAccepted, ops, last, remote, pending, settled>>

----------------------------------------------------------------------------
(* Bounds of the model *)

\* Service operations in one run of the specification with every operation.
MaxOps == 3

\* Seconds of clock time the model lets pass after the start.
MaxSeconds == 6

\* Service operations in one run of the specifications with the fine clock.
MaxTimedOps == 3

\* Service operations in one run of the specification with the remote store.
MaxRemoteOps == 3

\* Service operations in one run of the specification of a burst.
MaxBurstOps == 11

\* Seconds of clock time the burst lasts.
MaxBurstSeconds == 55

\* The largest throttle duration the settings dialog is saved with.
MaxDialogDuration == 6000

----------------------------------------------------------------------------
(* Values *)

\* A missing optional argument or field (undefined).
Undefined == "<undefined>"

StartTime == 10000 * 1000

Types == {"success", "error", "warning", "info"}

\* JavaScript truthiness of an optional string: undefined and '' are falsy.
Truthy(s) == s # Undefined /\ s # ""

Max(a, b) == IF a >= b THEN a ELSE b

----------------------------------------------------------------------------
(* Strings *)

\* The letters of "STOCK"; every other character is its own lower case.
LowerChar(c) ==
    CASE c = "S" -> "s"
      [] c = "T" -> "t"
      [] c = "O" -> "o"
      [] c = "C" -> "c"
      [] c = "K" -> "k"
      [] c = "A" -> "a"
      [] OTHER -> c

RECURSIVE toLowerCase(_)
toLowerCase(s) ==
    IF Len(s) = 0 THEN ""
    ELSE LowerChar(SubSeq(s, 1, 1)) \o toLowerCase(SubSeq(s, 2, Len(s)))

\* String.prototype.includes
includes(s, needle) ==
    \E i \in 1..(Len(s) - Len(needle) + 1) :
        SubSeq(s, i, i + Len(needle) - 1) = needle

\* (message, title) pairs passed to the show* helpers.
Saved == <<"Item saved", "Saved">>
Failed == <<"Save failed", "Failed">>
StockText == <<"Stock adjustment of 5 units", "x">>
\* reports.component.ts, line 659
StockCleared == <<"Stock notifications cleared successfully!", "Success">>

\* The titles and messages the operations are called with below.
KnownStrings ==
    { Saved[1], Saved[2], Failed[1], Failed[2], StockText[1], StockText[2],
      StockCleared[1], StockCleared[2],
      "New Order Created", "Order 1001 created by Ann",
      "Order Updated", "Order 1001 status changed to shipped",
      "Inventory Updated", "Update performed on Widget",
      "Warehouse Updated", "Update performed on Main",
      "Adjustment", "5 units of Widget",
      "Stock Adjustment", "add 5 units of Widget",
      "Settings Updated", "Notification settings saved!" }

\* s.toLowerCase().includes('stock'), computed once for the known strings.
LowerIncludesStock == [s \in KnownStrings |-> includes(toLowerCase(s), "stock")]

MentionsStock(s) ==
    IF s \in KnownStrings THEN LowerIncludesStock[s]
    ELSE includes(toLowerCase(s), "stock")

----------------------------------------------------------------------------
(* The service's private helpers *)

CountUnread(list) == Cardinality({i \in DOMAIN list : ~list[i].read})

\* A count that ignores the read flags.
updateUnreadCountAll(list) == Len(list)

\* updateUnreadCount: the value it publishes for the list.
updateUnreadCount(list) == CountUnread(list)

\* generateId: Date.now().toString(36) + Math.random().toString(36).substr(2).
\* The two parts are kept as a pair; rnd is the value Math.random() returned.
generateId(rnd) == <<now, rnd>>

\* shouldShowNotification, lines 51-54: the hard category block.
CategoryBlocked(category) == category = "stock" \/ category = "inventory"

\* shouldShowNotification, lines 56-70: the per-type visibility switch.
TypeEnabled(type) ==
    CASE type = "success" -> userSettings.showSuccessNotifications
      [] type = "info"    -> userSettings.showInfoNotifications
      [] type = "warning" -> userSettings.showWarningNotifications
      [] type = "error"   -> userSettings.showErrorNotifications
      [] OTHER -> TRUE

\* shouldShowNotification, line 73.
ThrottleKey(type, category) ==
    type \o "-" \o (IF Truthy(category) THEN category ELSE "default")

\* shouldShowNotification, lines 78-80.
EffectiveThrottle(category) ==
    IF category = "stock"
    THEN Max(userSettings.throttleDuration * 3, 15000)
    ELSE userSettings.throttleDuration

\* shouldShowNotification, lines 75 and 82: lastNotification && (now - last) < d.
Throttled(type, category) ==
    LET key == ThrottleKey(type, category) IN
    /\ key \in DOMAIN notificationThrottle
    /\ notificationThrottle[key] # 0
    /\ now - notificationThrottle[key] < EffectiveThrottle(category)

\* The value shouldShowNotification returns.
shouldShowNotification(type, category) ==
    /\ ~CategoryBlocked(category)
    /\ TypeEnabled(type)
    /\ ~Throttled(type, category)

\* The throttle map after shouldShowNotification (line 87 on the true path).
ThrottleAfter(type, category) ==
    IF shouldShowNotification(type, category)
    THEN LET key == ThrottleKey(type, category) IN
         [k \in DOMAIN notificationThrottle \cup {key} |->
             IF k = key THEN now ELSE notificationThrottle[k]]
    ELSE notificationThrottle

\* A stock block that looks at the category only.
StockBlockedByCategoryOnly(n) == n.category = "stock"

\* A stock block that looks at the texts only.
StockBlockedByTextOnly(n) == MentionsStock(n.title) \/ MentionsStock(n.message)

\* addNotification, lines 177-182: the stock block.
StockBlocked(n) ==
    \/ n.category = "stock"
    \/ MentionsStock(n.title)
    \/ MentionsStock(n.message)

\* The fixed duplicate window of addNotification, line 197.
DuplicateWindow == 5000

\* A duplicate check whose window is the throttle duration.
isDuplicateWithinThrottle(list, n) ==
    \E i \in DOMAIN list :
        /\ list[i].title = n.title
        /\ list[i].message = n.message
        /\ now - list[i].timestamp < userSettings.throttleDuration

\* addNotification, lines 194-198.
isDuplicate(list, n) ==
    \E i \in DOMAIN list :
        /\ list[i].title = n.title
        /\ list[i].message = n.message
        /\ now - list[i].timestamp < DuplicateWindow

\* Whether addNotification(n) reaches line 205 on the list.
AddAccepts(list, n) == ~StockBlocked(n) /\ ~isDuplicate(list, n)

\* addNotification, lines 184-189.
NewNotification(n, rnd) ==
    [id |-> generateId(rnd), title |-> n.title, message |-> n.message,
     type |-> n.type, priority |-> n.priority, category |-> n.category,
     suppressible |-> n.suppressible, userId |-> n.userId,
     timestamp |-> now, read |-> FALSE]

\* A list that grows at its end.
InsertLast(list, e) == Append(list, e)

\* addNotification, line 205: the list published for an accepted notification.
Insert(list, e) == <<e>> \o list

\* addNotification as a function of the published pair (list, count): line 206
\* recomputes the count only when the notification is accepted.
addNotification(st, n, rnd) ==
    IF AddAccepts(st.list, n)
    THEN LET list == Insert(st.list, NewNotification(n, rnd))
         IN  [list |-> list, count |-> updateUnreadCount(list)]
    ELSE st

\* The gate that stops a call of a show* helper, or "accepted".
ShowOutcome(type, category, n) ==
    IF CategoryBlocked(category) THEN "category"
    ELSE IF ~TypeEnabled(type) THEN "type"
    ELSE IF Throttled(type, category) THEN "throttle"
    ELSE IF StockBlocked(n) THEN "stock"
    ELSE IF isDuplicate(notifications, n) THEN "duplicate"
    ELSE "accepted"

\* The gate that stops a direct call of addNotification, or "accepted".
AddOutcome(list, n) ==
    IF StockBlocked(n) THEN "stock"
    ELSE IF isDuplicate(list, n) THEN "duplicate"
    ELSE "accepted"

\* History: key k was accepted now.
Accept(acc, k) == [x \in DOMAIN acc \cup {k} |-> IF x = k THEN now ELSE acc[x]]

----------------------------------------------------------------------------
(* Initial state: lines 25-39 *)

DefaultSettings ==
    [showSuccessNotifications |-> TRUE,
     showInfoNotifications |-> FALSE,
     showWarningNotifications |-> TRUE,
     showErrorNotifications |-> TRUE,
     showStockAdjustmentNotifications |-> FALSE,
     throttleDuration |-> 3000,
     maxNotificationsPerMinute |-> 10]

Init ==
    /\ notifications = <<>>
    /\ unreadCount = 0
    /\ notificationThrottle = [k \in {} |-> 0]
    /\ userSettings = DefaultSettings
    /\ now = StartTime
    /\ lastAccepted = [k \in {} |-> 0]
    /\ ops = 0
    /\ last = [op |-> "init"]
    /\ remote = {}
    /\ pending = {}
    /\ settled = [call |-> "none", failures |-> 0]

----------------------------------------------------------------------------
(* Emission: the show* helpers, lines 381-438 *)

\* An id that no notification carries.
AbsentId == <<0, 0>>

\* The local variables a remote call never touches while it is started.
remoteVars == <<remote, settled>>

\* A save for every accepted notification, whatever its userId.
NeedsSaveAlways(n) == TRUE

\* addNotification, line 209: if (notification.userId).
NeedsSave(n) == Truthy(n.userId)

Ids(list) == {list[i].id : i \in DOMAIN list}

\* The calls of the async methods, numbered by the operation that made them.
\* saveNotificationToFirestore(newNotification), lines 276-282.
saveNotificationToFirestore(e) == [n |-> ops + 1, kind |-> "save", doc |-> e]

\* updateNotificationInFirestore(notificationId, { read: true }), lines 285-299.
updateNotificationInFirestore(id) == [n |-> ops + 1, kind |-> "update", id |-> id]

\* updateAllNotificationsInFirestore({ read: true }), lines 302-325: line 304
\* reads the live list when the method is called.
updateAllNotificationsInFirestore(list) ==
    [n |-> ops + 1, kind |-> "updateAll", ids |-> Ids(list)]

\* deleteNotificationFromFirestore(notificationId), lines 328-342.
deleteNotificationFromFirestore(id) == [n |-> ops + 1, kind |-> "delete", id |-> id]

\* clearAllNotificationsFromFirestore(), lines 345-368: line 347 reads the
\* live list when the method is called.  History: was, the ids of the live
\* list when clearAllNotifications was called.
clearAllNotificationsFromFirestore(list, was) ==
    [n |-> ops + 1, kind |-> "clearAll", ids |-> Ids(list), was |-> was]

\* The saves addNotification starts for the entries it put before old.
StartedSaves(old, new) ==
    {saveNotificationToFirestore(new[i]) :
        i \in {j \in 1..(Len(new) - Len(old)) : NeedsSave(new[j])}}

\* The handler starts the calls and returns.
Start(calls) == pending' = pending \cup calls /\ UNCHANGED remoteVars

\* The values Math.random() is drawn from in generateId.
RandomValues == {1, 2}

\* The body shared by showSuccess, showWarning, showInfo and showError:
\* if (this.shouldShowNotification(type, category)) this.addNotification({...}).
Show(op, type, priority, suppressible, message, title, category) ==
    LET shown == shouldShowNotification(type, category)
        n == [title |-> title, message |-> message, type |-> type,
              priority |-> priority,
              category |-> IF Truthy(category) THEN category ELSE "general",
              suppressible |-> suppressible, userId |-> Undefined]
        outcome == ShowOutcome(type, category, n)
        key == ThrottleKey(type, category)
    IN  \E rnd \in (IF outcome = "accepted" THEN RandomValues ELSE {0}) :
        LET st == IF shown
                  THEN addNotification([list |-> notifications,
                                        count |-> unreadCount], n, rnd)
                  ELSE [list |-> notifications, count |-> unreadCount]
        IN  /\ notificationThrottle' = ThrottleAfter(type, category)
            /\ notifications' = st.list
            /\ unreadCount' = st.count
            /\ lastAccepted' = IF outcome = "accepted"
                               THEN Accept(lastAccepted, key) ELSE lastAccepted
            /\ last' = [op |-> op, type |-> type, category |-> category,
                        key |-> key, title |-> title, message |-> message,
                        outcome |-> outcome, userId |-> Undefined,
                        id |-> IF outcome = "accepted"
                               THEN generateId(rnd) ELSE AbsentId]
            /\ ops' = ops + 1
            /\ Start(StartedSaves(notifications, st.list))
            /\ UNCHANGED <<userSettings, now>>

showSuccess(message, title, category) ==
    Show("showSuccess", "success", "low", TRUE, message, title, category)

showWarning(message, title, category) ==
    Show("showWarning", "warning", "medium", TRUE, message, title, category)

showInfo(message, title, category) ==
    Show("showInfo", "info", "low", TRUE, message, title, category)

showError(message, title, category) ==
    Show("showError", "error", "high", FALSE, message, title, category)

----------------------------------------------------------------------------
(* Emission: the notify* helpers, lines 440-496, call addNotification directly *)

Notify(op, n) ==
    LET outcome == AddOutcome(notifications, n)
        key == ThrottleKey(n.type, n.category)
    IN  \E rnd \in (IF outcome = "accepted" THEN RandomValues ELSE {0}) :
        LET st == addNotification([list |-> notifications,
                                   count |-> unreadCount], n, rnd)
        IN  /\ notifications' = st.list
            /\ unreadCount' = st.count
            /\ lastAccepted' = IF outcome = "accepted"
                               THEN Accept(lastAccepted, key) ELSE lastAccepted
            /\ last' = [op |-> op, type |-> n.type, category |-> n.category,
                        key |-> key, title |-> n.title, message |-> n.message,
                        outcome |-> outcome, userId |-> n.userId,
                        id |-> IF outcome = "accepted"
                               THEN generateId(rnd) ELSE AbsentId]
            /\ ops' = ops + 1
            /\ Start(StartedSaves(notifications, st.list))
            /\ UNCHANGED <<notificationThrottle, userSettings, now>>

notifyOrderCreated(orderNumber, customerName, userId) ==
    Notify("notifyOrderCreated",
           [title |-> "New Order Created",
            message |-> "Order " \o orderNumber \o " created by " \o customerName,
            type |-> "info", priority |-> "medium", category |-> "orders",
            suppressible |-> TRUE, userId |-> userId])

notifyOrderUpdated(orderNumber, status, userId) ==
    Notify("notifyOrderUpdated",
           [title |-> "Order Updated",
            message |-> "Order " \o orderNumber \o " status changed to " \o status,
            type |-> "info", priority |-> "low", category |-> "orders",
            suppressible |-> TRUE, userId |-> userId])

notifyInventoryUpdated(productName, action, userId) ==
    Notify("notifyInventoryUpdated",
           [title |-> "Inventory Updated",
            message |-> action \o " performed on " \o productName,
            type |-> "info", priority |-> "low", category |-> "inventory",
            suppressible |-> TRUE, userId |-> userId])

notifyWarehouseUpdated(warehouseName, action, userId) ==
    Notify("notifyWarehouseUpdated",
           [title |-> "Warehouse Updated",
            message |-> action \o " performed on " \o warehouseName,
            type |-> "info", priority |-> "low", category |-> "warehouse",
            suppressible |-> TRUE, userId |-> userId])

\* notifyStockAdjustment, lines 479-483: logs and returns.
notifyStockAdjustment(productName, quantity, type, userId) ==
    /\ last' = [op |-> "notifyStockAdjustment", type |-> "warning",
                category |-> "stock", key |-> ThrottleKey("warning", "stock"),
                title |-> "Stock Adjustment", message |-> productName,
                outcome |-> "disabled", userId |-> userId, id |-> AbsentId]
    /\ UNCHANGED <<notifications, unreadCount, notificationThrottle,
                   userSettings, now, lastAccepted, remote, pending, settled>>
    /\ ops' = ops + 1

----------------------------------------------------------------------------
(* Mutation of the live list, lines 214-263 and 101-114 *)

\* A markAsRead that also stamps the entry with the time it was read.
MarkReadTouching(list, id) ==
    [i \in 1..Len(list) |->
        IF list[i].id = id
        THEN [list[i] EXCEPT !.read = TRUE, !.timestamp = now] ELSE list[i]]

\* markAsRead, lines 216-221.
MarkRead(list, id) ==
    [i \in 1..Len(list) |->
        IF list[i].id = id THEN [list[i] EXCEPT !.read = TRUE] ELSE list[i]]

markAsRead(notificationId) ==
    /\ notifications' = MarkRead(notifications, notificationId)
    /\ unreadCount' = updateUnreadCount(notifications')
    /\ last' = [op |-> "markAsRead", id |-> notificationId]
    /\ Start({updateNotificationInFirestore(notificationId)})
    /\ UNCHANGED <<notificationThrottle, userSettings, now, lastAccepted>>
    /\ ops' = ops + 1

\* markAllAsRead, lines 231-235.
MarkAllRead(list) == [i \in 1..Len(list) |-> [list[i] EXCEPT !.read = TRUE]]

markAllAsRead ==
    /\ notifications' = MarkAllRead(notifications)
    /\ unreadCount' = updateUnreadCount(notifications')
    /\ last' = [op |-> "markAllAsRead"]
    /\ Start({updateAllNotificationsInFirestore(notifications')})
    /\ UNCHANGED <<notificationThrottle, userSettings, now, lastAccepted>>
    /\ ops' = ops + 1

\* A removal that drops the first entry whatever its id.
RemoveFirst(list, id) == IF list = <<>> THEN list ELSE Tail(list)

\* A removal by splice(findIndex(...), 1): findIndex gives -1 for an id no
\* entry has, and splice(-1, 1) drops the last entry.
RemoveBySplice(list, id) ==
    LET hit == {i \in DOMAIN list : list[i].id = id}
        k == IF hit = {} THEN Len(list)
             ELSE CHOOSE i \in hit : \A j \in hit : i <= j
    IN  IF list = <<>> THEN list
        ELSE [i \in 1..(Len(list) - 1) |-> IF i < k THEN list[i] ELSE list[i + 1]]

\* removeNotification, lines 245-248.
Remove(list, id) == LET Keep(e) == e.id # id IN SelectSeq(list, Keep)

removeNotification(notificationId) ==
    /\ notifications' = Remove(notifications, notificationId)
    /\ unreadCount' = updateUnreadCount(notifications')
    /\ last' = [op |-> "removeNotification", id |-> notificationId]
    /\ Start({deleteNotificationFromFirestore(notificationId)})
    /\ UNCHANGED <<notificationThrottle, userSettings, now, lastAccepted>>
    /\ ops' = ops + 1

\* clearAllNotifications, line 258.
ClearAll(list) == <<>>

\* A clearAllNotifications that also forgets the throttle times.
clearAllNotificationsResetThrottle ==
    /\ notifications' = ClearAll(notifications)
    /\ unreadCount' = updateUnreadCount(notifications')
    /\ notificationThrottle' = [k \in {} |-> 0]
    /\ last' = [op |-> "clearAllNotifications"]
    /\ Start({clearAllNotificationsFromFirestore(notifications',
                                                 Ids(notifications))})
    /\ UNCHANGED <<userSettings, now, lastAccepted>>
    /\ ops' = ops + 1

clearAllNotifications ==
    /\ notifications' = ClearAll(notifications)
    /\ unreadCount' = updateUnreadCount(notifications')
    /\ last' = [op |-> "clearAllNotifications"]
    /\ Start({clearAllNotificationsFromFirestore(notifications',
                                                 Ids(notifications))})
    /\ UNCHANGED <<notificationThrottle, userSettings, now, lastAccepted>>
    /\ ops' = ops + 1

\* A filter that also drops the entries of category 'inventory', the other
\* category shouldShowNotification blocks.
NotStockOrInventory(e) ==
    /\ e.category # "stock"
    /\ e.category # "inventory"
    /\ ~includes(e.title, "Stock Adjustment")
    /\ ~includes(e.title, "Stock adjustment")
    /\ ~includes(e.message, "stock")
    /\ ~includes(e.message, "Stock")

\* clearStockAdjustmentNotifications, lines 104-110: the entries it keeps.
NotStockAdjustment(e) ==
    /\ e.category # "stock"
    /\ ~includes(e.title, "Stock Adjustment")
    /\ ~includes(e.title, "Stock adjustment")
    /\ ~includes(e.message, "stock")
    /\ ~includes(e.message, "Stock")

clearStockAdjustmentNotifications ==
    /\ notifications' = SelectSeq(notifications, NotStockAdjustment)
    /\ unreadCount' = updateUnreadCount(notifications')
    /\ last' = [op |-> "clearStockAdjustmentNotifications"]
    /\ UNCHANGED <<remote, pending, settled>>
    /\ UNCHANGED <<notificationThrottle, userSettings, now, lastAccepted>>
    /\ ops' = ops + 1

----------------------------------------------------------------------------
(* Settings, lines 91-99 *)

\* A merge into the default settings instead of the current ones.
MergeSettingsIntoDefaults(old, partial) ==
    [k \in DOMAIN old |->
        IF k \in DOMAIN partial THEN partial[k] ELSE DefaultSettings[k]]

\* { ...this.userSettings, ...settings }
MergeSettings(old, partial) ==
    [k \in DOMAIN old |-> IF k \in DOMAIN partial THEN partial[k] ELSE old[k]]

updateSettings(settings) ==
    /\ userSettings' = MergeSettings(userSettings, settings)
    /\ ops' = ops + 1
    /\ last' = [op |-> "updateSettings", settings |-> settings]
    /\ UNCHANGED <<notifications, unreadCount, notificationThrottle, now,
                   lastAccepted, remote, pending, settled>>

getSettings == userSettings

----------------------------------------------------------------------------
(* The clock *)

Tick(d) ==
    /\ now' = now + d
    /\ UNCHANGED <<notifications, unreadCount, notificationThrottle,
                   userSettings, lastAccepted, ops, last, remote, pending,
                   settled>>

----------------------------------------------------------------------------
(* Re-hydration: loadUserNotifications of NotificationBellComponent and    *)
(* NotificationsComponent, the subscriber of getUserNotifications          *)

\* A field of a persisted record; a record may lack it (undefined).
Has(doc, f) == f \in DOMAIN doc
Field(doc, f) == IF Has(doc, f) THEN doc[f] ELSE Undefined

\* The argument loadUserNotifications builds from a persisted record.
Rehydrated(doc) ==
    [title |-> doc.title, message |-> doc.message, type |-> doc.type,
     priority |-> IF Truthy(Field(doc, "priority")) THEN doc.priority ELSE "low",
     category |-> IF Truthy(Field(doc, "category"))
                  THEN doc.category ELSE "general",
     suppressible |-> IF Has(doc, "suppressible") THEN doc.suppressible ELSE TRUE,
     userId |-> IF Truthy(Field(doc, "userId")) THEN doc.userId ELSE Undefined]

\* A forEach that puts every record into the list itself.
RECURSIVE AddEachUnfiltered(_, _, _)
AddEachUnfiltered(st, snapshot, rnds) ==
    IF snapshot = <<>> THEN st
    ELSE LET list == Insert(st.list,
                            NewNotification(Rehydrated(Head(snapshot)), Head(rnds)))
         IN  AddEachUnfiltered([list |-> list, count |-> updateUnreadCount(list)],
                               Tail(snapshot), Tail(rnds))

\* notifications.forEach(notification => addNotification({...}))
RECURSIVE AddEach(_, _, _)
AddEach(st, snapshot, rnds) ==
    IF snapshot = <<>> THEN st
    ELSE AddEach(addNotification(st, Rehydrated(Head(snapshot)), Head(rnds)),
                 Tail(snapshot), Tail(rnds))

\* History: the keys of the first k entries of the list were accepted now.
RECURSIVE AcceptHead(_, _, _)
AcceptHead(acc, list, k) ==
    IF k = 0 THEN acc
    ELSE AcceptHead(Accept(acc, ThrottleKey(list[k].type, list[k].category)),
                    list, k - 1)

\* The snapshot is an input: the records the collection holds for the user.
loadUserNotifications(snapshot) ==
    \E rnds \in [1..Len(snapshot) -> RandomValues] :
        LET st == AddEach([list |-> notifications, count |-> unreadCount],
                          snapshot, rnds)
            added == Len(st.list) - Len(notifications)
        IN  /\ notifications' = st.list
            /\ unreadCount' = st.count
            /\ lastAccepted' = AcceptHead(lastAccepted, st.list, added)
            /\ last' = [op |-> "loadUserNotifications", snapshot |-> snapshot,
                        added |-> added]
            /\ ops' = ops + 1
            /\ Start(StartedSaves(notifications, st.list))
            /\ UNCHANGED <<notificationThrottle, userSettings, now>>

----------------------------------------------------------------------------
(* The remote calls settle *)

\* The first record of the query where('id', '==', id) for every id of ids
\* that has one: a set with one record for each such id.
FirstDocs(docs, ids) ==
    {S \in SUBSET {d \in docs : d.id \in ids} :
        \A id \in ids :
            Cardinality({d \in S : d.id = id})
               = IF \E d \in docs : d.id = id THEN 1 ELSE 0}

MarkDocs(S) == {[d EXCEPT !.read = TRUE] : d \in S}

\* The collections a call can leave when none of its awaits fails.
Written(docs, call) ==
    IF call.kind = "save" THEN {docs \cup {call.doc}}
    ELSE IF call.kind = "update"
    THEN {(docs \ S) \cup MarkDocs(S) : S \in FirstDocs(docs, {call.id})}
    ELSE IF call.kind = "updateAll"
    THEN {(docs \ S) \cup MarkDocs(S) : S \in FirstDocs(docs, call.ids)}
    ELSE IF call.kind = "delete"
    THEN {docs \ S : S \in FirstDocs(docs, {call.id})}
    ELSE {docs \ S : S \in FirstDocs(docs, call.ids)}

\* A catch block that takes the notification of a failed save out of the list.
CaughtRollingBack(list, call) ==
    IF call.kind = "save"
    THEN LET Keep(e) == e.id # call.doc.id IN SelectSeq(list, Keep)
    ELSE list

\* The catch blocks, lines 279-281, 296-298, 322-324, 339-341, 365-367:
\* console.error(...) and nothing else.
Caught(list, call) == list

RemoteSucceeds(call) ==
    /\ call \in pending
    /\ remote' \in Written(remote, call)
    /\ pending' = pending \ {call}
    /\ settled' = [call |-> call, ok |-> TRUE, failures |-> settled.failures]
    /\ UNCHANGED <<notifications, unreadCount, notificationThrottle,
                   userSettings, now, lastAccepted, ops, last>>

RemoteFails(call) ==
    /\ call \in pending
    /\ notifications' = Caught(notifications, call)
    /\ pending' = pending \ {call}
    /\ settled' = [call |-> call, ok |-> FALSE,
                   failures |-> settled.failures + 1]
    /\ UNCHANGED <<unreadCount, notificationThrottle, userSettings, now,
                   lastAccepted, ops, last, remote>>

\* getUserNotifications(userId), lines 266-273: the records of the user,
\* orderBy('timestamp', 'desc'), as valueChanges() delivers them.
getUserNotifications(userId) ==
    LET mine == {d \in remote : d.userId = userId}
        n == Cardinality(mine)
    IN  {s \in [1..n -> mine] :
            /\ \A i, j \in 1..n : i # j => s[i] # s[j]
            /\ \A i, j \in 1..n : i < j => s[i].timestamp >= s[j].timestamp}

----------------------------------------------------------------------------
(* Inputs the operations are called with *)

\* Records of the remote collection 'notifications'.
OrderDoc ==
    [title |-> "New Order Created", message |-> "Order 1001 created by Ann",
     type |-> "info", priority |-> "medium", category |-> "orders",
     suppressible |-> TRUE, userId |-> "u1"]
StockDoc ==
    [title |-> "Adjustment", message |-> "5 units of Widget",
     type |-> "warning", priority |-> "medium", category |-> "stock",
     suppressible |-> TRUE, userId |-> "u1"]
\* A record written by the revision of the service without categories.
LegacyStockDoc ==
    [title |-> "Stock Adjustment", message |-> "add 5 units of Widget",
     type |-> "warning", userId |-> "u1"]

\* The snapshots getUserNotifications delivers.
Snapshots ==
    { <<OrderDoc>>, <<StockDoc>>, <<LegacyStockDoc, OrderDoc, OrderDoc>>,
      <<OrderDoc, OrderDoc>> }

\* Partial<typeof userSettings> values passed to updateSettings.
SettingsPartials ==
    { [k \in {"showSuccessNotifications"} |-> FALSE],
      [k \in {"showInfoNotifications"} |-> TRUE],
      [k \in {"showWarningNotifications"} |-> FALSE],
      [k \in {"showErrorNotifications"} |-> FALSE],
      [k \in {"showStockAdjustmentNotifications", "throttleDuration"} |->
          IF k = "throttleDuration" THEN 0 ELSE TRUE] }

LiveIds == {notifications[i].id : i \in DOMAIN notifications}

CanTick(d) == now + d <= StartTime + MaxSeconds * 1000

----------------------------------------------------------------------------
(* The service with all its operations, on a coarse clock *)

Budget == ops < MaxOps

Next ==
    \/ Budget /\ \E tc \in {<<Saved, Undefined>>, <<Saved, "inventory">>,
                            <<StockCleared, Undefined>>} :
                     showSuccess(tc[1][1], tc[1][2], tc[2])
    \/ Budget /\ \E c \in {Undefined, "inventory"} :
                     showError(Failed[1], Failed[2], c)
    \/ Budget /\ \E tc \in {<<Saved, "orders">>, <<StockText, "stock">>} :
                     showWarning(tc[1][1], tc[1][2], tc[2])
    \/ Budget /\ \E tc \in {<<Saved, Undefined>>, <<StockText, "stock">>} :
                     showInfo(tc[1][1], tc[1][2], tc[2])
    \/ Budget /\ notifyOrderCreated("1001", "Ann", Undefined)
    \/ Budget /\ notifyOrderUpdated("1001", "shipped", Undefined)
    \/ Budget /\ notifyInventoryUpdated("Widget", "Update", Undefined)
    \/ Budget /\ notifyWarehouseUpdated("Main", "Update", Undefined)
    \/ Budget /\ notifyStockAdjustment("Widget", 5, "add", Undefined)
    \/ Budget /\ \E snapshot \in Snapshots : loadUserNotifications(snapshot)
    \/ Budget /\ \E id \in LiveIds \cup {AbsentId} : markAsRead(id)
    \/ Budget /\ markAllAsRead
    \/ Budget /\ \E id \in LiveIds \cup {AbsentId} : removeNotification(id)
    \/ Budget /\ clearAllNotifications
    \/ Budget /\ clearStockAdjustmentNotifications
    \/ Budget /\ \E p \in SettingsPartials : updateSettings(p)
    \/ \E d \in {6000} : CanTick(d) /\ Tick(d)

Spec == Init /\ [][Next]_vars

----------------------------------------------------------------------------
(* The same service with a clock of 1 s and 2.5 s steps *)

TimedBudget == ops < MaxTimedOps

\* Partial settings a settings dialog passes to updateSettings.
TimingPartials ==
    { [k \in {"throttleDuration"} |-> 0],
      [k \in {"showInfoNotifications", "throttleDuration"} |->
          IF k = "throttleDuration" THEN 6000 ELSE TRUE] }

\* Emissions through a show* helper and through a notify* helper, with the
\* throttle duration at 0, 3000 and 6000.
NextTiming ==
    \/ TimedBudget /\ \E t \in {Saved, Failed} : showWarning(t[1], t[2], "orders")
    \/ TimedBudget /\ notifyOrderCreated("1001", "Ann", Undefined)
    \/ TimedBudget /\ \E p \in TimingPartials : updateSettings(p)
    \/ \E d \in {1000, 2500} : CanTick(d) /\ Tick(d)

SpecTiming == Init /\ [][NextTiming]_vars

\* Emissions under one throttle key with the default settings.
NextThrottle ==
    \/ TimedBudget /\ \E t \in {Saved, Failed} : showWarning(t[1], t[2], "orders")
    \/ TimedBudget /\ \E id \in LiveIds : removeNotification(id)
    \/ \E d \in {1000, 2500} : CanTick(d) /\ Tick(d)

SpecThrottle == Init /\ [][NextThrottle]_vars

----------------------------------------------------------------------------
(* The service with the remote store: a signed-in user "u1" *)

RemoteBudget == ops < MaxRemoteOps

NextRemote ==
    \/ RemoteBudget /\ \E u \in {"u1", Undefined} :
                           notifyOrderCreated("1001", "Ann", u)
    \/ RemoteBudget /\ \E id \in LiveIds : markAsRead(id)
    \/ RemoteBudget /\ markAllAsRead
    \/ RemoteBudget /\ \E id \in LiveIds : removeNotification(id)
    \/ RemoteBudget /\ clearAllNotifications
    \/ RemoteBudget /\ \E snapshot \in getUserNotifications("u1") :
                           loadUserNotifications(snapshot)
    \/ \E call \in pending : RemoteSucceeds(call)
    \/ \E call \in pending : RemoteFails(call)
    \/ \E d \in {6000} : CanTick(d) /\ Tick(d)

SpecRemote == Init /\ [][NextRemote]_vars

----------------------------------------------------------------------------
(* A new session of the signed-in user "u1": the collection holds the      *)
(* records an earlier session saved                                        *)

\* The record notifyOrderCreated saved a minute before the session, marked
\* read since.
PersistedCreated ==
    [id |-> <<StartTime - 60000, 1>>, title |-> "New Order Created",
     message |-> "Order 1001 created by Ann", type |-> "info",
     priority |-> "medium", category |-> "orders", suppressible |-> TRUE,
     userId |-> "u1", timestamp |-> StartTime - 60000, read |-> TRUE]

\* The record notifyOrderUpdated saved half a minute before the session.
PersistedUpdated ==
    [id |-> <<StartTime - 30000, 1>>, title |-> "Order Updated",
     message |-> "Order 1001 status changed to shipped", type |-> "info",
     priority |-> "low", category |-> "orders", suppressible |-> TRUE,
     userId |-> "u1", timestamp |-> StartTime - 30000, read |-> FALSE]

\* What getUserNotifications delivers, orderBy('timestamp', 'desc').
SessionSnapshots ==
    { <<PersistedUpdated, PersistedCreated>>, <<PersistedCreated>> }

NextSession ==
    \/ Budget /\ \E snapshot \in SessionSnapshots :
                     loadUserNotifications(snapshot)
    \/ Budget /\ \E id \in LiveIds : markAsRead(id)
    \/ Budget /\ \E id \in LiveIds : removeNotification(id)
    \/ \E d \in {6000} : CanTick(d) /\ Tick(d)

SpecSession == Init /\ [][NextSession]_vars

----------------------------------------------------------------------------
(* A burst: the same order notification every 5 seconds *)

BurstBudget == ops < MaxBurstOps

\* The clock moves on once a notification was accepted at this instant.
BurstCanTick(d) ==
    /\ now + d <= StartTime + MaxBurstSeconds * 1000
    /\ notifications # <<>>
    /\ notifications[1].timestamp = now

NextBurst ==
    \/ BurstBudget /\ notifyOrderCreated("1001", "Ann", Undefined)
    \/ \E d \in {5000} : BurstCanTick(d) /\ Tick(d)

SpecBurst == Init /\ [][NextBurst]_vars

----------------------------------------------------------------------------
(* The notification settings dialog of InventoryComponent                  *)
(* (src/src/app/pages/inventory/inventory.component.ts)                    *)

\* loadNotificationSettings, lines 1252-1255: the value it gives the dialog.
loadNotificationSettings == getSettings

\* The dialog as the user saves it: as it was opened, or with another number
\* typed into the throttle field.
Dialogs ==
    {loadNotificationSettings}
       \cup {[loadNotificationSettings EXCEPT !.throttleDuration = s] : s \in {0, 5}}

\* saveNotificationSettings, lines 1266-1276: updateSettings with the throttle
\* duration times 1000, then showSuccess(..., 'settings'), which runs under
\* the settings just saved.
saveNotificationSettings(notificationSettings) ==
    LET settings == [notificationSettings EXCEPT !.throttleDuration = @ * 1000]
        saved == MergeSettings(userSettings, settings)
        key == ThrottleKey("success", "settings")
        throttled == /\ key \in DOMAIN notificationThrottle
                     /\ notificationThrottle[key] # 0
                     /\ now - notificationThrottle[key] < saved.throttleDuration
        shown == saved.showSuccessNotifications /\ ~throttled
        n == [title |-> "Settings Updated",
              message |-> "Notification settings saved!", type |-> "success",
              priority |-> "low", category |-> "settings",
              suppressible |-> TRUE, userId |-> Undefined]
        outcome == IF ~saved.showSuccessNotifications THEN "type"
                   ELSE IF throttled THEN "throttle"
                   ELSE AddOutcome(notifications, n)
    IN  \E rnd \in (IF outcome = "accepted" THEN RandomValues ELSE {0}) :
        LET st == IF shown
                  THEN addNotification([list |-> notifications,
                                        count |-> unreadCount], n, rnd)
                  ELSE [list |-> notifications, count |-> unreadCount]
        IN  /\ userSettings' = saved
            /\ notificationThrottle' = IF shown
                                       THEN Accept(notificationThrottle, key)
                                       ELSE notificationThrottle
            /\ notifications' = st.list
            /\ unreadCount' = st.count
            /\ lastAccepted' = IF outcome = "accepted"
                               THEN Accept(lastAccepted, key) ELSE lastAccepted
            /\ last' = [op |-> "saveNotificationSettings",
                        settings |-> settings, outcome |-> outcome,
                        edited |-> notificationSettings # loadNotificationSettings]
            /\ ops' = ops + 1
            /\ Start(StartedSaves(notifications, st.list))
            /\ UNCHANGED now

NextSettings ==
    \/ Budget /\ \E dialog \in Dialogs :
                     /\ dialog.throttleDuration <= MaxDialogDuration
                     /\ saveNotificationSettings(dialog)
    \/ Budget /\ \E t \in {Saved, Failed} : showWarning(t[1], t[2], "orders")
    \/ \E d \in {6000} : CanTick(d) /\ Tick(d)

SpecSettings == Init /\ [][NextSettings]_vars

----------------------------------------------------------------------------
(* Publication: the order of next() and updateUnreadCount() in a handler *)

\* The two subjects as a subscriber of notifications$ reads them inside its
\* callback during a handler: notificationsSubject.next(list) (lines 205,
\* 222, 236, 249 and 258) runs the callbacks before the handler goes on to
\* updateUnreadCount() (lines 206, 223, 237, 250 and 259), so the list is the
\* new one and the count is the one of before the handler.
AtNext == [list |-> notifications', count |-> unreadCount]

\* The handler of this step calls notificationsSubject.next once.
Publishes ==
    /\ ops' = ops + 1
    /\ IF last'.op \in {"showSuccess", "showWarning", "showInfo", "showError",
                        "notifyOrderCreated", "notifyOrderUpdated",
                        "notifyInventoryUpdated", "notifyWarehouseUpdated"}
       THEN last'.outcome = "accepted"
       ELSE last'.op \in {"markAsRead", "markAllAsRead", "removeNotification",
                          "clearAllNotifications"}

----------------------------------------------------------------------------
(* Vocabulary of the properties *)

ShowOps == {"showSuccess", "showWarning", "showInfo", "showError"}

NotifyOps == {"notifyOrderCreated", "notifyOrderUpdated",
              "notifyInventoryUpdated", "notifyWarehouseUpdated",
              "notifyStockAdjustment"}

\* The operations that emit one notification.
EmitOps == ShowOps \cup NotifyOps

\* The step is a service operation (not the clock).
Operated == ops' = ops + 1

Entries(list) == {list[i] : i \in DOMAIN list}

WithText(list, title, message) ==
    {i \in DOMAIN list : list[i].title = title /\ list[i].message = message}

\* An entry without its read flag.
Unread(e) == [e EXCEPT !.read = FALSE]
Content(list) == [i \in 1..Len(list) |-> Unread(list[i])]

\* a can be obtained from b by deleting entries.
RECURSIVE IsSubsequence(_, _)
IsSubsequence(a, b) ==
    IF a = <<>> THEN TRUE
    ELSE IF b = <<>> THEN FALSE
    ELSE IF Head(a) = Head(b) THEN IsSubsequence(Tail(a), Tail(b))
    ELSE IsSubsequence(a, Tail(b))

----------------------------------------------------------------------------
(* Properties *)

\* C1: in every reachable state, after any operation of the service, the
\* published unread count is the number of live entries whose read flag is
\* false.
UnreadCountInvariant == unreadCount = CountUnread(notifications)

\* C1 witness: markAsRead has run on a list that keeps an unread entry.
UnreadCountWitness ==
    /\ last.op = "markAsRead"
    /\ \E i, j \in DOMAIN notifications :
           notifications[i].read /\ ~notifications[j].read

\* C2: the scenario from the initial state: showSuccess('Item saved', 'Saved',
\* 'inventory') makes the entry appear with unread count 1; markAllAsRead then
\* leaves it read with unread count 0; showError('Save failed', 'Failed',
\* 'inventory') then puts its entry at the head with unread count 1.
InventoryScenario ==
    /\ (/\ ops = 1
        /\ last.op = "showSuccess"
        /\ last.category = "inventory"
        /\ <<last.message, last.title>> = Saved)
       => /\ Len(notifications) = 1
          /\ notifications[1].title = "Saved"
          /\ unreadCount = 1
    /\ (/\ ops = 2
        /\ last.op = "markAllAsRead"
        /\ Len(notifications) = 1)
       => /\ notifications[1].read
          /\ unreadCount = 0
    /\ (/\ ops = 3
        /\ last.op = "showError"
        /\ last.category = "inventory"
        /\ <<last.message, last.title>> = Failed
        /\ userSettings = DefaultSettings)
       => /\ notifications # <<>>
          /\ notifications[1].title = "Failed"
          /\ unreadCount = 1

\* C3: no entry of the live list has category 'stock', whatever the settings
\* and whichever operation emitted it.
NoStockCategoryInLiveList ==
    \A i \in DOMAIN notifications : notifications[i].category # "stock"

\* C3 witness: a snapshot with a record of category 'stock' has been
\* re-hydrated while showStockAdjustmentNotifications is true and
\* throttleDuration is 0.
NoStockCategoryWitness ==
    /\ last.op = "loadUserNotifications"
    /\ \E i \in DOMAIN last.snapshot :
           Field(last.snapshot[i], "category") = "stock"
    /\ userSettings.showStockAdjustmentNotifications
    /\ userSettings.throttleDuration = 0

\* C6: while the visibility flag of a type is off, an emission of that type
\* is rejected and leaves the live list and the unread count unchanged,
\* whichever operation of the service emits it; an emission made while the
\* flag is on is not rejected for its type; and updateSettings itself leaves
\* the live list and the unread count unchanged, so no emission rejected
\* earlier appears afterwards.
VisibilityGatingStep ==
    /\ (Operated /\ last'.op \in EmitOps /\ ~TypeEnabled(last'.type))
       => /\ last'.outcome # "accepted"
          /\ UNCHANGED <<notifications, unreadCount>>
    /\ (Operated /\ last'.op \in EmitOps /\ TypeEnabled(last'.type))
       => last'.outcome # "type"
    /\ (Operated /\ last'.op = "updateSettings")
       => UNCHANGED <<notifications, unreadCount>>

\* C6 holds of every step.
VisibilityGating == [][VisibilityGatingStep]_vars

\* C7: the live list holds the accepted notifications newest first: an
\* accepted emission puts its entry at the head and keeps the rest, a
\* re-hydration puts the records it accepts, the last one first, before the
\* rest, and no other step changes the order of the entries that stay; so
\* the timestamps never increase from the head on.
NewestFirstStep ==
    Operated =>
       IF last'.op \in EmitOps /\ last'.outcome = "accepted"
       THEN /\ notifications' # <<>>
            /\ Tail(notifications') = notifications
            /\ notifications'[1].id = last'.id
            /\ notifications'[1].timestamp = now
       ELSE IF last'.op = "loadUserNotifications"
       THEN LET k == Len(notifications') - Len(notifications)
                Text(e) == <<e.title, e.message>>
            IN  /\ k >= 0
                /\ SubSeq(notifications', k + 1, Len(notifications'))
                      = notifications
                /\ IsSubsequence(
                      [i \in 1..k |-> Text(notifications'[k + 1 - i])],
                      [i \in 1..Len(last'.snapshot) |-> Text(last'.snapshot[i])])
       ELSE IsSubsequence(Content(notifications'), Content(notifications))

\* C7: the timestamps never increase from the head on, and every step keeps the order.
NewestFirst ==
    /\ [](\A i, j \in DOMAIN notifications :
              i < j => notifications[i].timestamp >= notifications[j].timestamp)
    /\ [][NewestFirstStep]_vars

\* C7 witness: three accepted emissions A, B, C stand as [C, B, A].
NewestFirstWitness ==
    /\ Len(notifications) = 3
    /\ last.op \in EmitOps
    /\ last.outcome = "accepted"
    /\ notifications[1].id = last.id

\* C8: removeNotification(id) leaves no entry with that id and every other
\* entry as it was, in the same order, and the unread count is the one of
\* the entries that stay: when one entry carried the id, it has dropped by
\* one exactly when that entry was unread, and when none did it has not
\* changed.  clearAllNotifications leaves an empty list and a count of 0.
RemovalAndClearStep ==
    /\ (Operated /\ last'.op = "removeNotification") =>
          LET id == last'.id
              hit == {i \in DOMAIN notifications : notifications[i].id = id}
              Other(e) == e.id # id
          IN  /\ \A i \in DOMAIN notifications' : notifications'[i].id # id
              /\ notifications' = SelectSeq(notifications, Other)
              /\ unreadCount' = CountUnread(notifications')
              /\ Cardinality(hit) <= 1 =>
                    unreadCount' = unreadCount -
                       (IF \E i \in hit : ~notifications[i].read THEN 1 ELSE 0)
    /\ (Operated /\ last'.op = "clearAllNotifications") =>
          notifications' = <<>> /\ unreadCount' = 0

DuplicateSuppressionStep ==
    (/\ Operated
     /\ last.op \in EmitOps /\ last.outcome = "accepted"
     /\ last'.op \in EmitOps
     /\ last'.title = last.title /\ last'.message = last.message
     /\ TypeEnabled(last'.type) /\ ~CategoryBlocked(last'.category)
     /\ Cardinality(WithText(notifications, last.title, last.message)) = 1)
    => LET gap == now - notifications[1].timestamp
           same == Cardinality(WithText(notifications', last.title, last.message))
       IN  /\ gap < 5000 => same = 1
           /\ (gap >= 6000 /\ userSettings.throttleDuration = 3000) => same = 2
           /\ (gap >= 5000 /\ last'.outcome # "throttle") => same = 2

\* C4 holds of every step.
DuplicateSuppression == [][DuplicateSuppressionStep]_vars

\* C4 witness: with the throttle duration at 3000, a second showWarning with
\* the text of the entry at the head has passed the throttle and has been
\* rejected as a duplicate.
DuplicateSuppressionWitness ==
    /\ last.op = "showWarning"
    /\ last.outcome = "duplicate"
    /\ userSettings.throttleDuration = 3000
    /\ Len(notifications) = 1
    /\ now - notifications[1].timestamp >= 3000

\* C5: with the throttle duration at 3000, from a fresh state, two showWarning
\* calls of category 'orders' with different texts leave one entry when one
\* second apart and two when 3.5 seconds apart; in general an emission
\* through a show* helper whose throttle key was last accepted less than the
\* throttle duration earlier is rejected, and one made at least the throttle
\* duration after that acceptance is not rejected by the throttle.
ThrottleStep ==
    (/\ Operated
     /\ last'.op \in ShowOps
     /\ TypeEnabled(last'.type) /\ ~CategoryBlocked(last'.category)
     /\ last'.key \in DOMAIN lastAccepted)
    => LET gap == now - lastAccepted[last'.key]
       IN  /\ gap < userSettings.throttleDuration => last'.outcome # "accepted"
           /\ gap >= userSettings.throttleDuration => last'.outcome # "throttle"
           /\ (/\ ops = 1
               /\ userSettings.throttleDuration = 3000
               /\ last.op = "showWarning" /\ last'.op = "showWarning"
               /\ last.title # last'.title)
              => /\ gap = 1000 => Len(notifications') = 1
                 /\ gap = 3500 => Len(notifications') = 2

\* C5 holds of every step.
ThrottlePerKey == [][ThrottleStep]_vars

\* C9: an emission rejected by any gate leaves the live list, the unread
\* count and the throttle map as they were, so the throttle entry of a key is
\* the time of the last accepted emission under that key.
RejectedEmissionStep ==
    (Operated /\ last'.op \in EmitOps /\ last'.outcome # "accepted")
    => UNCHANGED <<notifications, unreadCount, notificationThrottle>>

\* C9: a rejected emission changes nothing, and the throttle map is the map of last acceptances.
RejectedEmissionChangesNothing ==
    /\ [][RejectedEmissionStep]_vars
    /\ [](notificationThrottle = lastAccepted)

\* C10: an emission whose category is neither 'stock' nor 'inventory',
\* whose type is enabled, whose throttle key was not accepted within the
\* throttle duration and whose text no live entry younger than 5 seconds
\* carries is accepted: its entry, unread and with an id no live entry had,
\* is put at the head of the list and the unread count grows by one.
AcceptanceStep ==
    (/\ Operated
     /\ last'.op \in EmitOps
     /\ last'.category \notin {"stock", "inventory"}
     /\ TypeEnabled(last'.type)
     /\ (last'.key \in DOMAIN lastAccepted =>
            now - lastAccepted[last'.key] >= userSettings.throttleDuration)
     /\ \A i \in WithText(notifications, last'.title, last'.message) :
            now - notifications[i].timestamp >= 5000)
    => /\ notifications' # <<>>
       /\ Tail(notifications') = notifications
       /\ notifications'[1].title = last'.title
       /\ notifications'[1].message = last'.message
       /\ ~notifications'[1].read
       /\ notifications'[1].id \notin LiveIds
       /\ unreadCount' = unreadCount + 1

\* C10 holds of every step.
AcceptedWhenNoGateApplies == [][AcceptanceStep]_vars

\* C11: with the settings unchanged, any two entries of the live list with
\* the same type and the same category were accepted at least
\* throttleDuration ms apart, whichever operations emitted them.
MinimumSpacing ==
    userSettings = DefaultSettings =>
        \A i, j \in DOMAIN notifications :
            (/\ i < j
             /\ notifications[i].type = notifications[j].type
             /\ notifications[i].category = notifications[j].category)
            => notifications[i].timestamp - notifications[j].timestamp
                  >= userSettings.throttleDuration

\* C12: the ids of the entries of the live list are pairwise distinct.
DistinctIds ==
    \A i, j \in DOMAIN notifications :
        i # j => notifications[i].id # notifications[j].id

\* C13: an entry that is in the live list before and after an operation
\* keeps its id, title, message, type, category, priority, suppressible and
\* timestamp, only its read flag may differ; and every entry stays unless
\* the operation is removeNotification, clearAllNotifications or
\* clearStockAdjustmentNotifications.
ImmutableEntriesStep ==
    Operated =>
        IF last'.op \in {"removeNotification", "clearAllNotifications",
                         "clearStockAdjustmentNotifications"}
        THEN IsSubsequence(notifications', notifications)
        ELSE LET k == Len(notifications') - Len(notifications)
             IN  /\ k >= 0
                 /\ \A i \in DOMAIN notifications :
                        Unread(notifications'[k + i]) = Unread(notifications[i])

\* C13 holds of every step.
ImmutableEntries == [][ImmutableEntriesStep]_vars

\* C13 witness: markAsRead has set the read flag of an entry accepted at an
\* earlier time.
ImmutableEntriesWitness ==
    /\ last.op = "markAsRead"
    /\ \E i \in DOMAIN notifications :
           /\ notifications[i].id = last.id
           /\ notifications[i].read
           /\ notifications[i].timestamp < now

\* C14: markAsRead(id) and removeNotification(id) with an id no entry of the
\* live list has leave the live list and the unread count unchanged.
AbsentIdStep ==
    (/\ Operated
     /\ last'.op \in {"markAsRead", "removeNotification"}
     /\ last'.id \notin LiveIds)
    => UNCHANGED <<notifications, unreadCount>>

\* C14 holds of every step.
AbsentIdIsNoOp == [][AbsentIdStep]_vars

\* C14 witness: removeNotification has been called with an id no entry has
\* on a list with an unread entry.
AbsentIdWitness ==
    /\ last.op = "removeNotification"
    /\ last.id = AbsentId
    /\ notifications # <<>>
    /\ unreadCount >= 1

\* C19: updateSettings(partial) replaces the fields given and keeps the
\* others, and leaves the live list, the unread count and the throttle map
\* unchanged; a later emission through a show* helper is rejected for its
\* type exactly when the flag of its type is off in the settings then in
\* force.
UpdateSettingsStep ==
    /\ (Operated /\ last'.op = "updateSettings") =>
          /\ DOMAIN userSettings' = DOMAIN userSettings
          /\ \A k \in DOMAIN userSettings :
                userSettings'[k] = IF k \in DOMAIN last'.settings
                                   THEN last'.settings[k] ELSE userSettings[k]
          /\ UNCHANGED <<notifications, unreadCount, notificationThrottle>>
    /\ (Operated /\ last'.op \in ShowOps /\ ~CategoryBlocked(last'.category)) =>
          (last'.outcome = "type" <=> ~TypeEnabled(last'.type))

\* C19 holds of every step.
UpdateSettingsFrame == [][UpdateSettingsStep]_vars

\* C19 witness: a second updateSettings has run, the flag set by the first
\* is still set, and a success notification accepted earlier is in the list
\* while showSuccessNotifications is off.
UpdateSettingsWitness ==
    /\ last.op = "updateSettings"
    /\ ops = 3
    /\ ~userSettings.showSuccessNotifications
    /\ userSettings.showInfoNotifications
    /\ \E i \in DOMAIN notifications : notifications[i].type = "success"

\* C20: markAsRead, markAllAsRead, removeNotification,
\* clearAllNotifications, clearStockAdjustmentNotifications and
\* updateSettings leave the throttle map unchanged; so, right after one of
\* them, an emission through a show* helper whose key was accepted less than
\* the throttle duration earlier is still rejected.
ThrottleFrameStep ==
    LET Others == {"markAsRead", "markAllAsRead", "removeNotification",
                   "clearAllNotifications",
                   "clearStockAdjustmentNotifications", "updateSettings"}
    IN  /\ (Operated /\ last'.op \in Others) => UNCHANGED notificationThrottle
        /\ (/\ Operated
            /\ last.op \in Others
            /\ last'.op \in ShowOps
            /\ last'.key \in DOMAIN lastAccepted
            /\ now - lastAccepted[last'.key] < userSettings.throttleDuration)
           => last'.outcome # "accepted"

Settles == pending' # pending /\ pending' \subseteq pending

\* C15: when a remote call settles, with or without failure, the live list
\* and the unread count stay as the handler left them: a failure rolls
\* nothing back and reaches no caller.
RemoteOutcomeStep == Settles => UNCHANGED <<notifications, unreadCount>>

\* C15 holds of every step.
RemoteOutcomeKeepsMemory == [][RemoteOutcomeStep]_vars

\* C15 witness: the save of an accepted notification has failed and the
\* notification is in the live list.
RemoteOutcomeWitness ==
    /\ "ok" \in DOMAIN settled
    /\ ~settled.ok
    /\ settled.call.kind = "save"
    /\ \E i \in DOMAIN notifications : notifications[i] = settled.call.doc

\* C16: once the bulk deletion started by clearAllNotifications has
\* completed without failure, the remote store holds no record of a
\* notification that was in the live list when clearAllNotifications was
\* called.
ClearAllReachesRemote ==
    (/\ "ok" \in DOMAIN settled
     /\ settled.ok
     /\ settled.call.kind = "clearAll")
    => \A d \in remote : d.id \notin settled.call.was

\* C17: an accepted emission that carries a userId starts exactly one save,
\* of the accepted record; an accepted emission without userId and a
\* rejected emission start none; a re-hydration starts one save for each
\* record it gets accepted with a userId.
SaveStartedStep ==
    LET new == pending' \ pending
        k == Len(notifications') - Len(notifications)
    IN  /\ (Operated /\ last'.op \in EmitOps) =>
              IF last'.outcome = "accepted" /\ Truthy(last'.userId)
              THEN /\ Cardinality(new) = 1
                   /\ \A c \in new : c.kind = "save" /\ c.doc = notifications'[1]
              ELSE new = {}
        /\ (Operated /\ last'.op = "loadUserNotifications") =>
              /\ \A c \in new : c.kind = "save"
              /\ {c.doc : c \in new}
                    = {notifications'[i] :
                          i \in {j \in 1..k : Truthy(notifications'[j].userId)}}
              /\ Cardinality(new) = Cardinality({c.doc : c \in new})

\* C17 holds of every step.
SaveStartedExactlyWhenAccepted == [][SaveStartedStep]_vars

\* C17 witness: an emission with a userId has been rejected as a duplicate
\* of an accepted one, whose save is the only remote call started.
SaveStartedWitness ==
    /\ ops = 2
    /\ last.op = "notifyOrderCreated"
    /\ last.userId = "u1"
    /\ last.outcome = "duplicate"
    /\ Cardinality(pending) = 1
    /\ \A c \in pending : c.kind = "save" /\ c.doc = notifications[1]

\* C18: a re-hydration puts into the live list no record of category 'stock'
\* and no record whose title or message mentions stock, and of the records
\* of one snapshot with the same title and message at most one.
RehydrationStep ==
    (Operated /\ last'.op = "loadUserNotifications") =>
        LET k == Len(notifications') - Len(notifications)
        IN  /\ k >= 0
            /\ \A i \in 1..k :
                  /\ notifications'[i].category # "stock"
                  /\ ~MentionsStock(notifications'[i].title)
                  /\ ~MentionsStock(notifications'[i].message)
            /\ \A i, j \in 1..k :
                  (/\ notifications'[i].title = notifications'[j].title
                   /\ notifications'[i].message = notifications'[j].message)
                  => i = j

\* C18 holds of every step.
RehydrationIsFiltered == [][RehydrationStep]_vars

\* C18 witness: of a snapshot with a stock adjustment record and two records
\* with the same title and message, one record has been put into the list.
RehydrationWitness ==
    /\ last.op = "loadUserNotifications"
    /\ last.snapshot = <<LegacyStockDoc, OrderDoc, OrderDoc>>
    /\ last.added = 1
    /\ Len(notifications) = 1

\* The stock predicate of clearStockAdjustmentNotifications.
MatchesStockPredicate(e) ==
    \/ e.category = "stock"
    \/ includes(e.title, "Stock Adjustment")
    \/ includes(e.title, "Stock adjustment")
    \/ includes(e.message, "stock")
    \/ includes(e.message, "Stock")

\* The entries of list that do not match the stock predicate, as they are.
Survivors(list) ==
    LET Other(e) == ~MatchesStockPredicate(e) IN SelectSeq(list, Other)

\* C21: clearStockAdjustmentNotifications removes every live entry that
\* matches the stock predicate (category 'stock', or title containing
\* 'Stock Adjustment' or 'Stock adjustment', or message containing 'stock'
\* or 'Stock') and leaves every other entry in the list, in the same
\* relative order and with the same read flag; the unread count afterwards
\* is the number of unread survivors.
ClearByCategoryStep ==
    (Operated /\ last'.op = "clearStockAdjustmentNotifications")
    => /\ notifications' = Survivors(notifications)
       /\ \A i \in DOMAIN notifications' : ~MatchesStockPredicate(notifications'[i])
       /\ unreadCount' = CountUnread(Survivors(notifications))

\* Entries that match the stock predicate by their category, by their title
\* and by their message, and entries that do not, read and unread.
SampleEntries ==
    LET Texts == { <<"Adjustment", "5 units of Widget", "stock">>,
                   <<"Stock Adjustment", "add 5 units of Widget", "general">>,
                   <<"x", "Stock adjustment of 5 units", "general">>,
                   <<"Restocked", "Widget", "inventory">>,
                   <<"New Order Created", "Order 1001 created by Ann", "orders">> }
    IN  { [id |-> <<StartTime, 1>>, title |-> t[1], message |-> t[2],
           type |-> "warning", priority |-> "low", category |-> t[3],
           suppressible |-> TRUE, userId |-> Undefined,
           timestamp |-> StartTime, read |-> r] :
          t \in Texts, r \in BOOLEAN }

\* The filter of clearStockAdjustmentNotifications on the lists of at most
\* two sample entries: what it keeps is what does not match, as it was.
ClearByCategoryOnSamples ==
    \A list \in UNION {[1..n -> SampleEntries] : n \in 0..2} :
        SelectSeq(list, NotStockAdjustment) = Survivors(list)

\* C21 holds of every step, and of the filter on lists with stock entries.
ClearByCategory == [][ClearByCategoryStep]_vars /\ []ClearByCategoryOnSamples

\* C21 witness: clearStockAdjustmentNotifications has run on a list of two
\* unread entries and has left both.
ClearByCategoryWitness ==
    /\ last.op = "clearStockAdjustmentNotifications"
    /\ Len(notifications) = 2
    /\ unreadCount = 2

\* C22: for a notification accepted with a userId, after markAsRead(id) and
\* once every remote call has completed without failure, the remote record
\* with that id has read = true; after removeNotification(id), no remote
\* record has that id; whatever the order in which the save started by the
\* emission and the update or delete started later complete.
RemoteMirrorsMutation ==
    (pending = {} /\ settled.failures = 0)
    => /\ last.op = "markAsRead" =>
             \A i \in DOMAIN notifications :
                 (notifications[i].id = last.id /\ Truthy(notifications[i].userId))
                 => /\ \E d \in remote : d.id = last.id
                    /\ \A d \in remote : d.id = last.id => d.read
       /\ last.op = "removeNotification" =>
             \A d \in remote : d.id # last.id

\* C23: at every moment a subscriber of the live list is notified of a new
\* list value (for an accepted emission, markAsRead, markAllAsRead,
\* removeNotification or clearAllNotifications), the current unread count
\* already is the number of unread entries of that list.
ListAndCountInStepStep ==
    Publishes => AtNext.count = CountUnread(AtNext.list)

\* C23 holds of every step.
ListAndCountInStep == [][ListAndCountInStepStep]_vars

\* C24: when a snapshot ordered newest first is re-hydrated into an empty
\* live list and none of its records is rejected, the live list presents
\* the notifications in the order of the snapshot, the newest persisted one
\* at the head.
RehydrationOrderStep ==
    (/\ Operated
     /\ last'.op = "loadUserNotifications"
     /\ notifications = <<>>
     /\ last'.added = Len(last'.snapshot))
    => \A i \in DOMAIN last'.snapshot :
           /\ notifications'[i].title = last'.snapshot[i].title
           /\ notifications'[i].message = last'.snapshot[i].message

\* C24 holds of every step.
RehydrationKeepsOrder == [][RehydrationOrderStep]_vars

\* C25: in every window of 60 seconds at most maxNotificationsPerMinute
\* notifications (10 with the default settings) are accepted into the live
\* list.
PerMinuteLimit ==
    \A i \in DOMAIN notifications :
        Cardinality({j \in DOMAIN notifications :
                        /\ notifications[j].timestamp >= notifications[i].timestamp
                        /\ notifications[j].timestamp - notifications[i].timestamp
                              < 60000})
           <= userSettings.maxNotificationsPerMinute

\* C26: a notification accepted with a userId, saved, marked read with the
\* remote update applied, and later re-hydrated from the remote store
\* enters the live list with the id, the timestamp and read = true of the
\* persisted record.
PersistenceRoundTripStep ==
    (/\ Operated
     /\ last'.op = "loadUserNotifications"
     /\ Len(last'.snapshot) = 1
     /\ last'.snapshot[1].read
     /\ last'.added = 1)
    => /\ notifications'[1].id = last'.snapshot[1].id
       /\ notifications'[1].timestamp = last'.snapshot[1].timestamp
       /\ notifications'[1].read

\* C26 holds of every step.
PersistenceRoundTrip == [][PersistenceRoundTripStep]_vars

\* C27: re-hydration never writes to the remote store: delivering a
\* snapshot of the user's persisted notifications starts no save, so the
\* load, save, snapshot cycle comes to rest with as many records as before.
RehydrationStartsNoSaveStep ==
    (Operated /\ last'.op = "loadUserNotifications") => pending' = pending

\* C27 holds of every step.
RehydrationStartsNoSave == [][RehydrationStartsNoSaveStep]_vars

\* C28: re-hydration is idempotent on the live list: delivering the same
\* snapshot a second time, at any later moment, adds no entry for a
\* notification that is already in the live list and does not raise the
\* unread count.
RehydrationIdempotentStep ==
    (/\ Operated
     /\ last.op = "loadUserNotifications"
     /\ last'.op = "loadUserNotifications"
     /\ last'.snapshot = last.snapshot)
    => /\ notifications' = notifications
       /\ unreadCount' <= unreadCount

\* C28 holds of every step.
RehydrationIdempotent == [][RehydrationIdempotentStep]_vars

\* C29: in every reachable state no entry of the live list has category
\* 'stock' or a title or message containing 'stock' in any letter case;
\* hence clearStockAdjustmentNotifications removes no entry in any
\* reachable state.
NoStockInLiveList ==
    /\ \A i \in DOMAIN notifications :
           /\ notifications[i].category # "stock"
           /\ ~MentionsStock(notifications[i].title)
           /\ ~MentionsStock(notifications[i].message)
    /\ SelectSeq(notifications, NotStockAdjustment) = notifications

\* C29 witness: with an entry in the live list, an emission of category
\* 'general' whose text mentions stock has been rejected by the stock block.
NoStockInLiveListWitness ==
    /\ last.op \in ShowOps
    /\ last.outcome = "stock"
    /\ last.category = Undefined
    /\ notifications # <<>>

\* C30: opening the notification settings dialog and saving it without any
\* edit leaves the settings of the service unchanged; in particular
\* throttleDuration has the same value in milliseconds after any number of
\* open-and-save cycles.
SettingsRoundTripStep ==
    (Operated /\ last'.op = "saveNotificationSettings" /\ ~last'.edited)
    => userSettings' = userSettings

\* C30 holds of every step.
SettingsRoundTrip == [][SettingsRoundTripStep]_vars

====
